---- MODULE Spec2Model ----
(***************************************************************************)
(* ExtensionDebuggerTransport (src/src/index.ts): a puppeteer connection   *)
(* transport on top of a chrome.debugger-like facade.                       *)
(*                                                                         *)
(* The facade is the api object handed to the transport. The model assumes *)
(* nothing of it beyond its interface: a call in flight may resolve or     *)
(* reject at any time, and a notification may name any tab at any time.    *)
(*                                                                         *)
(* The model holds the transports constructed on one facade (one in Spec,  *)
(* two on two different tabs in SpecTwo), the facade calls in flight       *)
(* (sendCommand, detach), the timers set by setTimeout, and per transport  *)
(* a log of what can be observed at its boundary: calls of the client's    *)
(* callbacks, calls of the facade, and how each send() and close() ended.  *)
(* SpecCreate starts with no transport: the calls of the static create     *)
(* construct them.                                                         *)
(***************************************************************************)
EXTENDS Integers, Sequences, FiniteSets, TLC

VARIABLES
    live,       \* the transports that have been constructed
    delay,      \* delay[a]: the transport's pacing delay in ms
    onmessage,  \* onmessage[a]: TRUE when the client has set the callback
    onclose,    \* onclose[a]: TRUE when the client has set the callback
    calls,      \* calls[a]: facade promises of this transport not yet settled
    timers,     \* the pending setTimeout callbacks, in the order they were set
    log,        \* log[a]: what happened at the transport's boundary, in order
    left,       \* how many more client and host inputs the run may take
    creates     \* the calls of create: the tab, where the call is, its log

vars == <<live, delay, onmessage, onclose, calls, timers, log, left, creates>>

----------------------------------------------------------------------------
(* Bounds of the model *)

MaxInputs == 3       \* inputs of the client and of the facade's event streams
                     \* in one run: send, close, a change of delay, a
                     \* notification
MaxSends == 2        \* send calls on one transport in one run
LiveInputs == 2      \* the inputs of a run checked for what eventually happens
TwoInputs == 2       \* the same, in a run with two transports
ShortDelay == 20     \* the other value the client may give to delay
TimeStep == 20       \* the longest time that passes in one step
MaxCreates == 2      \* calls of create in one run
MaxTargets == 2      \* entries of the list the facade's getTargets gives
CreateInputs == 2    \* notifications in a run that starts with no transport

(* Program constants *)

DefaultDelay == 40   \* delay = 0.04 * 1000

----------------------------------------------------------------------------
(* JavaScript values *)

\* undefined, where an object, null or undefined may stand
Undefined == [undefined |-> TRUE]
\* null
Null == [null |-> TRUE]
\* {}
EmptyObject == [k \in {} |-> TRUE]
\* undefined, where a string or undefined may stand
NoString == "undefined"

\* The keys of an envelope whose value is an object, null or undefined
ObjectKeys == {"params", "error", "result"}

\* JSON.stringify of an error object {message}: a key whose value is
\* undefined is left out
StringifyError(e) ==
    [k \in {k \in DOMAIN e : e[k] # NoString} |-> e[k]]

\* JSON.stringify of an envelope, as the object a JSON parser reads back from
\* the text: a key whose value is undefined is left out, null is kept
Stringify(o) ==
    [k \in {k \in DOMAIN o : ~(k \in ObjectKeys /\ o[k] = Undefined)} |->
        IF k = "error" THEN StringifyError(o[k]) ELSE o[k]]

\* Left-biased merge of two objects: {...a, ...b} is Spread(b, a)
Spread(over, base) ==
    [k \in DOMAIN over \cup DOMAIN base |->
        IF k \in DOMAIN over THEN over[k] ELSE base[k]]

----------------------------------------------------------------------------
(* The transports and their targets *)

Adapters == {"A1", "A2"}

\* The TargetInfo each transport was constructed with (_getTargetInfo's shape)
target ==
    [a \in Adapters |->
        [id |-> a,
         tabId |-> IF a = "A1" THEN 7 ELSE 8,
         attached |-> TRUE,
         targetId |-> a,
         canAccessOpener |-> FALSE]]

sessionId == [a \in Adapters |-> target[a].id]

debugee == [a \in Adapters |-> [tabId |-> target[a].tabId]]

\* Tabs the facade may name as the source of a notification
Tabs == {7, 8}

----------------------------------------------------------------------------
(* What the client and the facade may hand to the transport *)

\* const targetCommands = [...] of send
targetCommands ==
    <<"Target.getBrowserContexts",
      "Target.setDiscoverTargets",
      "Target.attachToTarget",
      "Target.activateTarget",
      "Target.closeTarget">>

Includes(seq, x) == \E i \in 1..Len(seq) : seq[i] = x

\* The params a client sends with a method
ParamsOf(method) ==
    CASE method = "Target.setDiscoverTargets" -> {[discover |-> TRUE]}
      [] method = "Target.attachToTarget" -> {[targetId |-> t] : t \in Adapters}
      [] method = "Target.activateTarget" -> {[targetId |-> "A1"]}
      [] method = "Target.closeTarget" -> {[targetId |-> "A1"]}
      [] OTHER -> {EmptyObject}

\* The commands a client may send with the id it has reached: CDPCommand is
\* {id, method, params} with an optional sessionId. Commands of other domains
\* are sent to the page's session, or without a session
CommandsOf(a, id) ==
    UNION {{[id |-> id, method |-> targetCommands[k], params |-> p] :
               p \in ParamsOf(targetCommands[k])} : k \in 1..Len(targetCommands)}
    \cup {[id |-> id, method |-> "Page.navigate",
           params |-> [url |-> "https://example.com"]],
          [id |-> id, method |-> "Runtime.evaluate",
           params |-> [expression |-> "1"], sessionId |-> sessionId[a]]}

\* A text JSON.parse throws on
Malformed == [malformed |-> TRUE]

\* The texts a client may pass to send: a serialized command, or not JSON
MessagesOf(a, id) == CommandsOf(a, id) \cup {Malformed}

\* What the facade's sendCommand may resolve to (undefined: no value)
Results == {[frameId |-> "F1"], Undefined}

\* What the facade's sendCommand or detach may reject with: an Error with a
\* message, or a value that carries none
Failures == {[message |-> "No tab with given id"], EmptyObject}

\* The notifications of the facade's onEvent
HostEvents ==
    {[method |-> "Page.domContentEventFired", params |-> [timestamp |-> 1]],
     [method |-> "Page.loadEventFired", params |-> [timestamp |-> 2]]}

----------------------------------------------------------------------------
(* Log entries *)

OnMessage(text) == [ev |-> "onmessage", msg |-> text]
OnClose == [ev |-> "onclose"]
SendCalled(command) == [ev |-> "send", command |-> command]
SendSettled(command, ok) == [ev |-> "sendSettled", command |-> command, ok |-> ok]
SendThrew == [ev |-> "sendThrew"]
FacadeSendCommand(d, method, params) ==
    [ev |-> "sendCommand", debugee |-> d, method |-> method, params |-> params]
FacadeDetach(d) == [ev |-> "detach", debugee |-> d]
SendCommandSettled(command, ok, value) ==
    [ev |-> "sendCommandSettled", command |-> command, ok |-> ok, value |-> value]
DetachSettled(ok) == [ev |-> "detachSettled", ok |-> ok]
CloseCalled(by) == [ev |-> "close", by |-> by]
CloseSettled(by, ok) == [ev |-> "closeSettled", by |-> by, ok |-> ok]

\* Entries of the log of a call of create
CreateCalled(tabId) == [ev |-> "create", tabId |-> tabId]
FacadeAttach(d, version) ==
    [ev |-> "attach", debugee |-> d, version |-> version]
AttachSettled(ok, value) == [ev |-> "attachSettled", ok |-> ok, value |-> value]
FacadeGetTargets == [ev |-> "getTargets"]
GetTargetsSettled(ok, value) ==
    [ev |-> "getTargetsSettled", ok |-> ok, value |-> value]
AddListener(stream, a) == [ev |-> "addListener", stream |-> stream, self |-> a]
CreateSettled(ok, value) == [ev |-> "createSettled", ok |-> ok, value |-> value]

RemoveAt(s, i) == SubSeq(s, 1, i - 1) \o SubSeq(s, i + 1, Len(s))

----------------------------------------------------------------------------
(* The private methods. Each takes the transport a and st, a record of the  *)
(* transport's log, its calls in flight and the timers, and gives st after  *)
(* the method has run.                                                      *)

St(a) == [log |-> log[a], calls |-> calls[a], timers |-> timers]

\* _emit: this?.onmessage?.call(null, JSON.stringify(event))
Emit(a, st, event) ==
    IF onmessage[a]
    THEN [st EXCEPT !.log = Append(@, OnMessage(Stringify(event)))]
    ELSE st

\* DelaySend with the callback called at once instead of set as a timer
DelaySend_Immediate(a, st, response) ==
    IF onmessage[a]
    THEN [st EXCEPT !.log = Append(@, OnMessage(Stringify(response)))]
    ELSE st

\* _delaySend: setTimeout(() => onmessage(JSON.stringify(response)), this.delay)
DelaySend(a, st, response) ==
    [st EXCEPT !.timers =
        Append(@, [self |-> a, ms |-> delay[a], rem |-> delay[a], run |-> "send",
                   response |-> response])]

\* _emitTargetCreated
EmitTargetCreated(a, st) ==
    Emit(a, st, [method |-> "Target.targetCreated",
                 params |-> [targetInfo |-> target[a]]])

\* _emitTargetAttached
EmitTargetAttached(a, st) ==
    Emit(a, st, [method |-> "Target.attachedToTarget",
                 params |-> [targetInfo |-> target[a],
                             sessionId |-> sessionId[a],
                             waitingForDebugger |-> FALSE]])

\* _emitTargetDetached
EmitTargetDetached(a, st) ==
    Emit(a, st, [method |-> "Target.detachedFromTarget",
                 params |-> [targetId |-> target[a].id,
                             sessionId |-> sessionId[a]]])

\* CloseTarget with the close callback called before the event is emitted
CloseTarget_CallbackFirst(a, st) ==
    LET s1 == IF onclose[a] THEN [st EXCEPT !.log = Append(@, OnClose)] ELSE st
    IN  EmitTargetDetached(a, s1)

\* _closeTarget: this._emitTargetDetached(); this.onclose?.call(null)
CloseTarget(a, st) ==
    LET s1 == EmitTargetDetached(a, st)
    IN  IF onclose[a] THEN [s1 EXCEPT !.log = Append(@, OnClose)] ELSE s1

\* close, up to its await: the call of the facade's detach
CloseCall(a, st, by) ==
    [st EXCEPT !.log = @ \o <<CloseCalled(by), FacadeDetach(debugee[a])>>,
               !.calls = Append(@, [op |-> "detach", by |-> by])]

\* The setTimeout(() => this.close(), this.delay) of Target.closeTarget
ScheduleClose(a, st) ==
    [st EXCEPT !.timers =
        Append(@, [self |-> a, ms |-> delay[a], rem |-> delay[a],
                   run |-> "close"])]

\* TargetResult without the assignment of the Target.setDiscoverTargets case:
\* the result stays the {} the response was made with
TargetResult_DiscoverUnset(a, method) ==
    CASE method = "Target.getBrowserContexts" -> [browserContextIds |-> <<>>]
      [] method = "Target.attachToTarget" -> [sessionId |-> sessionId[a]]
      [] method = "Target.activateTarget" -> Null
      [] method = "Target.closeTarget" -> [success |-> TRUE]
      [] OTHER -> EmptyObject

\* The result _handleTargetCommand gives each method
TargetResult(a, method) ==
    CASE method = "Target.getBrowserContexts" -> [browserContextIds |-> <<>>]
      [] method = "Target.setDiscoverTargets" -> Null
      [] method = "Target.attachToTarget" -> [sessionId |-> sessionId[a]]
      [] method = "Target.activateTarget" -> Null
      [] method = "Target.closeTarget" -> [success |-> TRUE]
      [] OTHER -> EmptyObject

\* The side effect of each case of _handleTargetCommand's switch
TargetSideEffect(a, st, method) ==
    CASE method = "Target.setDiscoverTargets" -> EmitTargetCreated(a, st)
      [] method = "Target.attachToTarget" -> EmitTargetAttached(a, st)
      [] method = "Target.closeTarget" -> ScheduleClose(a, st)
      [] OTHER -> st

\* HandleTargetCommand with the session of Target.attachToTarget's reply
\* taken from the targetId the command names
HandleTargetCommand_SessionOfParams(a, st, command) ==
    LET result == IF command.method = "Target.attachToTarget"
                  THEN [sessionId |-> command.params.targetId]
                  ELSE TargetResult(a, command.method)
        response ==
            [Spread([error |-> Undefined, result |-> EmptyObject], command)
                EXCEPT !.result = result]
    IN  DelaySend(a, TargetSideEffect(a, st, command.method), response)

\* _handleTargetCommand
HandleTargetCommand(a, st, command) ==
    LET response ==
            [Spread([error |-> Undefined, result |-> EmptyObject], command)
                EXCEPT !.result = TargetResult(a, command.method)]
    IN  DelaySend(a, TargetSideEffect(a, st, command.method), response)

\* send's response to a command the facade resolved with result
SuccessResponse(command, result) ==
    Spread([error |-> Undefined, result |-> result], command)

\* FailureResponse with a fixed text in place of the failure's message
FailureResponse_FixedText(command, error) ==
    Spread([error |-> [message |-> "Error"]], command)

\* send's response to a command the facade rejected with error:
\* {...command, error: {message: error?.message}}
FailureResponse(command, error) ==
    Spread([error |->
               [message |-> IF "message" \in DOMAIN error
                            THEN error.message ELSE NoString]],
           command)

----------------------------------------------------------------------------
(* The state after construction: no callback set yet, nothing in flight *)

InitWith(transports, budget) ==
    /\ live = transports
    /\ left = budget
    /\ delay = [a \in Adapters |-> DefaultDelay]
    /\ onmessage = [a \in Adapters |-> FALSE]
    /\ onclose = [a \in Adapters |-> FALSE]
    /\ calls = [a \in Adapters |-> <<>>]
    /\ timers = <<>>
    /\ log = [a \in Adapters |-> <<>>]
    /\ creates = <<>>

\* One transport
Init == InitWith({"A1"}, MaxInputs)

\* Two transports on the same facade
InitTwo == InitWith(Adapters, TwoInputs)

\* The id the client of transport a gives its next command: it counts its
\* commands from 1
NextId(a) == 1 + Cardinality({i \in 1..Len(log[a]) : log[a][i].ev = "send"})

\* The send calls made on transport a so far
Sends(a) ==
    Cardinality({i \in 1..Len(log[a]) : log[a][i].ev \in {"send", "sendThrew"}})

\* One more input is taken
TakeInput ==
    /\ left > 0
    /\ left' = left - 1

\* Writes st back to the variables of transport a
Commit(a, st) ==
    /\ log' = [log EXCEPT ![a] = st.log]
    /\ calls' = [calls EXCEPT ![a] = st.calls]
    /\ timers' = st.timers

----------------------------------------------------------------------------
(* The client *)

\* The client sets transport.onmessage and transport.onclose, as puppeteer's
\* Connection does before it sends anything
Connect(a) ==
    /\ ~onmessage[a] /\ ~onclose[a]
    /\ onmessage' = [onmessage EXCEPT ![a] = TRUE]
    /\ onclose' = [onclose EXCEPT ![a] = TRUE]
    /\ UNCHANGED <<creates, live, delay, calls, timers, log, left>>

\* The client assigns the public field delay
SetDelay(a, d) ==
    /\ d # delay[a]
    /\ TakeInput
    /\ delay' = [delay EXCEPT ![a] = d]
    /\ UNCHANGED <<creates, live, onmessage, onclose, calls, timers, log>>

\* send(message), up to its first await or its return
SendBody(a, st, message) ==
    IF message = Malformed
    THEN [st EXCEPT !.log = Append(@, SendThrew)]
    ELSE LET command == message
             s1 == [st EXCEPT !.log = Append(@, SendCalled(command))]
         IN  IF Includes(targetCommands, command.method)
             THEN LET s2 == HandleTargetCommand(a, s1, command)
                  IN  [s2 EXCEPT !.log = Append(@, SendSettled(command, TRUE))]
             ELSE [s1 EXCEPT
                     !.log = Append(@, FacadeSendCommand(debugee[a],
                                           command.method, command.params)),
                     !.calls = Append(@, [op |-> "sendCommand",
                                          command |-> command])]

Send(a, message) ==
    /\ onmessage[a] /\ onclose[a]
    /\ Sends(a) < MaxSends
    /\ TakeInput
    /\ Commit(a, SendBody(a, St(a), message))
    /\ UNCHANGED <<creates, live, delay, onmessage, onclose>>

\* SendResolved with the response given to the oldest command in flight
\* instead of the command whose call resolved
SendResolved_Oldest(a, st, i, result) ==
    LET oldest == CHOOSE j \in 1..Len(st.calls) :
                      /\ st.calls[j].op = "sendCommand"
                      /\ \A h \in 1..(j - 1) : st.calls[h].op # "sendCommand"
        command == st.calls[oldest].command
        s1 == [st EXCEPT !.calls = RemoveAt(@, i),
                         !.log = Append(@, SendCommandSettled(command, TRUE, result))]
        s2 == DelaySend(a, s1, SuccessResponse(command, result))
    IN  [s2 EXCEPT !.log = Append(@, SendSettled(command, TRUE))]

\* send after its await, when the facade's sendCommand resolved
SendResolved(a, st, i, result) ==
    LET command == st.calls[i].command
        s1 == [st EXCEPT !.calls = RemoveAt(@, i),
                         !.log = Append(@, SendCommandSettled(command, TRUE, result))]
        s2 == DelaySend(a, s1, SuccessResponse(command, result))
    IN  [s2 EXCEPT !.log = Append(@, SendSettled(command, TRUE))]

\* SendRejected with the command given to the facade once more
SendRejected_Retry(a, st, i, error) ==
    LET command == st.calls[i].command
    IN  [st EXCEPT !.log = @ \o
            <<SendCommandSettled(command, FALSE, error),
              FacadeSendCommand(debugee[a], command.method, command.params)>>]

\* SendRejected with the failure thrown to the caller of send: no response
SendRejected_Rethrow(a, st, i, error) ==
    LET command == st.calls[i].command
    IN  [st EXCEPT !.calls = RemoveAt(@, i),
                   !.log = @ \o <<SendCommandSettled(command, FALSE, error),
                                  SendSettled(command, FALSE)>>]

\* send's catch block, when the facade's sendCommand rejected
SendRejected(a, st, i, error) ==
    LET command == st.calls[i].command
        s1 == [st EXCEPT !.calls = RemoveAt(@, i),
                         !.log = Append(@, SendCommandSettled(command, FALSE, error))]
        s2 == DelaySend(a, s1, FailureResponse(command, error))
    IN  [s2 EXCEPT !.log = Append(@, SendSettled(command, TRUE))]

\* The facade settles a sendCommand call
SendCommandResolves(a, i, result) ==
    /\ i \in 1..Len(calls[a])
    /\ calls[a][i].op = "sendCommand"
    /\ Commit(a, SendResolved(a, St(a), i, result))
    /\ UNCHANGED <<creates, live, delay, onmessage, onclose, left>>

SendCommandRejects(a, i, error) ==
    /\ i \in 1..Len(calls[a])
    /\ calls[a][i].op = "sendCommand"
    /\ Commit(a, SendRejected(a, St(a), i, error))
    /\ UNCHANGED <<creates, live, delay, onmessage, onclose, left>>

\* The client calls close()
Close(a) ==
    /\ onmessage[a] /\ onclose[a]
    /\ TakeInput
    /\ Commit(a, CloseCall(a, St(a), "client"))
    /\ UNCHANGED <<creates, live, delay, onmessage, onclose>>

\* close after its await, when the facade's detach resolved
CloseResolved(a, st, i) ==
    LET by == st.calls[i].by
        s1 == [st EXCEPT !.calls = RemoveAt(@, i),
                         !.log = Append(@, DetachSettled(TRUE))]
        s2 == CloseTarget(a, s1)
    IN  [s2 EXCEPT !.log = Append(@, CloseSettled(by, TRUE))]

\* close when the facade's detach rejected: the await throws, close rejects
CloseRejected(a, st, i) ==
    LET by == st.calls[i].by
        s1 == [st EXCEPT !.calls = RemoveAt(@, i),
                         !.log = Append(@, DetachSettled(FALSE))]
    IN  [s1 EXCEPT !.log = Append(@, CloseSettled(by, FALSE))]

\* The facade settles a detach call
DetachResolves(a, i) ==
    /\ i \in 1..Len(calls[a])
    /\ calls[a][i].op = "detach"
    /\ Commit(a, CloseResolved(a, St(a), i))
    /\ UNCHANGED <<creates, live, delay, onmessage, onclose, left>>

DetachRejects(a, i) ==
    /\ i \in 1..Len(calls[a])
    /\ calls[a][i].op = "detach"
    /\ Commit(a, CloseRejected(a, St(a), i))
    /\ UNCHANGED <<creates, live, delay, onmessage, onclose, left>>

----------------------------------------------------------------------------
(* Timers *)

Due == {i \in 1..Len(timers) : timers[i].rem = 0}

Min(S) == CHOOSE x \in S : \A y \in S : x <= y

\* The callback _delaySend sets: this?.onmessage?.call(null, JSON.stringify(response))
DeliverResponse(a, st, response) ==
    IF onmessage[a]
    THEN [st EXCEPT !.log = Append(@, OnMessage(Stringify(response)))]
    ELSE st

\* What the timer t runs
RunTimer(a, st, t) ==
    IF t.run = "send"
    THEN DeliverResponse(a, st, t.response)
    ELSE CloseCall(a, st, "timer")

\* FireTimer with the timers due at the same time run latest first
FireTimer_Latest ==
    /\ Due # {}
    /\ LET i == CHOOSE x \in Due : \A y \in Due : x >= y
           t == timers[i]
           a == t.self
           st == [St(a) EXCEPT !.timers = RemoveAt(@, i)]
       IN  Commit(a, RunTimer(a, st, t))
    /\ UNCHANGED <<creates, live, delay, onmessage, onclose, left>>

\* The timer that is due first runs; timers due at the same time run in the
\* order they were set
FireTimer ==
    /\ Due # {}
    /\ LET i == Min(Due)
           t == timers[i]
           a == t.self
           st == [St(a) EXCEPT !.timers = RemoveAt(@, i)]
       IN  Commit(a, RunTimer(a, st, t))
    /\ UNCHANGED <<creates, live, delay, onmessage, onclose, left>>

\* Time passes, up to the moment the next timer is due
Tick ==
    /\ timers # <<>>
    /\ Due = {}
    /\ LET d == Min({timers[i].rem : i \in 1..Len(timers)} \cup {TimeStep})
       IN  timers' = [i \in 1..Len(timers) |->
                         [timers[i] EXCEPT !.rem = @ - d]]
    /\ UNCHANGED <<creates, live, delay, onmessage, onclose, calls, log, left>>

----------------------------------------------------------------------------
(* The facade's notifications. Every transport's listener is called.       *)

\* OnEventListener without the comparison of the source's tab
OnEventListener_NoFilter(a, st, source, method, params) ==
    Emit(a, st, [method |-> method, params |-> params,
                 sessionId |-> sessionId[a]])

\* OnEventListener with the event made of method and params alone
OnEventListener_Unstamped(a, st, source, method, params) ==
    LET event == [method |-> method, params |-> params]
    IN  IF source.tabId = target[a].tabId THEN Emit(a, st, event) ELSE st

\* OnEventListener with the notification's params left out of the event
OnEventListener_NoParams(a, st, source, method, params) ==
    LET event == [method |-> method, params |-> EmptyObject,
                  sessionId |-> sessionId[a]]
    IN  IF source.tabId = target[a].tabId THEN Emit(a, st, event) ELSE st

\* The onEvent listener the constructor adds
OnEventListener(a, st, source, method, params) ==
    LET event == [method |-> method, params |-> params,
                  sessionId |-> sessionId[a]]
    IN  IF source.tabId = target[a].tabId THEN Emit(a, st, event) ELSE st

\* The onDetach listener the constructor adds
OnDetachListener(a, st, source) ==
    IF source.tabId = target[a].tabId THEN CloseTarget(a, st) ELSE st

HostEvent(tab, e) ==
    /\ TakeInput
    /\ log' = [a \in Adapters |->
                  IF a \in live
                  THEN OnEventListener(a, St(a), [tabId |-> tab],
                                       e.method, e.params).log
                  ELSE log[a]]
    /\ UNCHANGED <<creates, live, delay, onmessage, onclose, calls, timers>>

HostDetach(tab) ==
    /\ TakeInput
    /\ log' = [a \in Adapters |->
                  IF a \in live
                  THEN OnDetachListener(a, St(a), [tabId |-> tab]).log
                  ELSE log[a]]
    /\ UNCHANGED <<creates, live, delay, onmessage, onclose, calls, timers>>

----------------------------------------------------------------------------
(* create. The client calls it at most once for a tab. Its last step,      *)
(* _initialize, only assigns the global Function, which the transport      *)
(* never reads.                                                            *)

\* The TargetInfo entries the facade may list: the two tabs, attached or
\* not, and a target that is no tab and has no tabId
HostTargets ==
    {[id |-> a, tabId |-> target[a].tabId, attached |-> b] :
        a \in Adapters, b \in BOOLEAN}
    \cup {[id |-> "W1", attached |-> TRUE]}

TargetLists == UNION {[1..n -> HostTargets] : n \in 0..MaxTargets}

\* new Error('target not found')
TargetNotFound == [message |-> "target not found"]

\* GetTargetInfo without the test of the attached flag
GetTargetInfo_AnyAttached(targets, d) ==
    LET Matches(t) == "tabId" \in DOMAIN t /\ t.tabId = d.tabId
        found == SelectSeq(targets, Matches)
    IN  [i \in 1..Len(found) |->
            Spread([targetId |-> found[i].id, canAccessOpener |-> FALSE],
                   found[i])]

\* _getTargetInfo after its await: the list filtered and mapped. An entry
\* without tabId compares unequal to every tab.
GetTargetInfo(targets, d) ==
    LET Matches(t) ==
            t.attached /\ "tabId" \in DOMAIN t /\ t.tabId = d.tabId
        found == SelectSeq(targets, Matches)
    IN  [i \in 1..Len(found) |->
            Spread([targetId |-> found[i].id, canAccessOpener |-> FALSE],
                   found[i])]

\* create up to its first await: the call of the facade's attach
Create(tabId) ==
    /\ Len(creates) < MaxCreates
    /\ \A i \in 1..Len(creates) : creates[i].tabId # tabId
    /\ creates' = Append(creates,
           [tabId |-> tabId, pc |-> "attach",
            log |-> <<CreateCalled(tabId),
                      FacadeAttach([tabId |-> tabId], "1.3")>>])
    /\ UNCHANGED <<live, delay, onmessage, onclose, calls, timers, log, left>>

\* attach resolved: create goes on to _getTargetInfo, which calls getTargets
AttachResolves(i) ==
    /\ i \in 1..Len(creates)
    /\ creates[i].pc = "attach"
    /\ creates' = [creates EXCEPT
           ![i].pc = "getTargets",
           ![i].log = @ \o <<AttachSettled(TRUE, Undefined), FacadeGetTargets>>]
    /\ UNCHANGED <<live, delay, onmessage, onclose, calls, timers, log, left>>

\* attach rejected: the await throws, create rejects with the same error
AttachRejects(i, error) ==
    /\ i \in 1..Len(creates)
    /\ creates[i].pc = "attach"
    /\ creates' = [creates EXCEPT
           ![i].pc = "done",
           ![i].log = @ \o <<AttachSettled(FALSE, error),
                             CreateSettled(FALSE, error)>>]
    /\ UNCHANGED <<live, delay, onmessage, onclose, calls, timers, log, left>>

\* getTargets resolved: _getTargetInfo throws or returns its first match,
\* the constructor adds the two listeners, create returns the transport
GetTargetsResolves(i, targets) ==
    /\ i \in 1..Len(creates)
    /\ creates[i].pc = "getTargets"
    /\ LET found == GetTargetInfo(targets, [tabId |-> creates[i].tabId])
           got == GetTargetsSettled(TRUE, [targets |-> targets])
       IN  IF Len(found) = 0
           THEN /\ creates' = [creates EXCEPT
                       ![i].pc = "done",
                       ![i].log = @ \o <<got, CreateSettled(FALSE, TargetNotFound)>>]
                /\ live' = live
           ELSE LET a == found[1].id
                IN  /\ creates' = [creates EXCEPT
                           ![i].pc = "done",
                           ![i].log = @ \o
                               <<got, AddListener("onEvent", a),
                                 AddListener("onDetach", a),
                                 CreateSettled(TRUE, [transport |-> a,
                                                      target |-> found[1]])>>]
                    /\ live' = live \cup {a}
    /\ UNCHANGED <<delay, onmessage, onclose, calls, timers, log, left>>

\* getTargets rejected: the await throws, create rejects with the same error
GetTargetsRejects(i, error) ==
    /\ i \in 1..Len(creates)
    /\ creates[i].pc = "getTargets"
    /\ creates' = [creates EXCEPT
           ![i].pc = "done",
           ![i].log = @ \o <<GetTargetsSettled(FALSE, error),
                             CreateSettled(FALSE, error)>>]
    /\ UNCHANGED <<live, delay, onmessage, onclose, calls, timers, log, left>>

----------------------------------------------------------------------------

Next ==
    \/ \E a \in live : Connect(a)
    \/ \E a \in live, d \in {DefaultDelay, ShortDelay} : SetDelay(a, d)
    \/ \E a \in live : \E message \in MessagesOf(a, NextId(a)) : Send(a, message)
    \/ \E a \in live : \E i \in 1..Len(calls[a]), r \in Results :
           SendCommandResolves(a, i, r)
    \/ \E a \in live : \E i \in 1..Len(calls[a]), e \in Failures :
           SendCommandRejects(a, i, e)
    \/ \E a \in live : Close(a)
    \/ \E a \in live : \E i \in 1..Len(calls[a]) : DetachResolves(a, i)
    \/ \E a \in live : \E i \in 1..Len(calls[a]) : DetachRejects(a, i)
    \/ FireTimer
    \/ Tick
    \/ \E tab \in Tabs, e \in HostEvents : HostEvent(tab, e)
    \/ \E tab \in Tabs : HostDetach(tab)

Spec == Init /\ [][Next]_vars

SpecTwo == InitTwo /\ [][Next]_vars

\* The event loop runs every timer that is due, and time passes
Fairness == WF_vars(FireTimer) /\ WF_vars(Tick)

\* One transport, a shorter run, timers that fire
InitLive == InitWith({"A1"}, LiveInputs)

SpecLive == InitLive /\ [][Next]_vars /\ Fairness

\* The facade settles a sendCommand call that is in flight
Settles ==
    \E a \in live : \E i \in 1..Len(calls[a]) :
        \/ \E r \in Results : SendCommandResolves(a, i, r)
        \/ \E e \in Failures : SendCommandRejects(a, i, e)

\* Timers fire and every sendCommand call is settled in the end
SpecSettle == InitLive /\ [][Next]_vars /\ Fairness /\ WF_vars(Settles)

\* No transport yet: create constructs them, the client connects them and
\* the facade notifies
InitCreate == InitWith({}, CreateInputs)

NextCreate ==
    \/ \E tab \in Tabs : Create(tab)
    \/ \E i \in 1..Len(creates) : AttachResolves(i)
    \/ \E i \in 1..Len(creates), e \in Failures : AttachRejects(i, e)
    \/ \E i \in 1..Len(creates), targets \in TargetLists :
           GetTargetsResolves(i, targets)
    \/ \E i \in 1..Len(creates), e \in Failures : GetTargetsRejects(i, e)
    \/ \E a \in live : Connect(a)
    \/ \E tab \in Tabs, e \in HostEvents : HostEvent(tab, e)
    \/ \E tab \in Tabs : HostDetach(tab)

SpecCreate == InitCreate /\ [][NextCreate]_vars

----------------------------------------------------------------------------
(* Reading the log *)

\* The places of log[a] that satisfy Test
Where(a, Test(_)) == {i \in 1..Len(log[a]) : Test(log[a][i])}

IsOnMessage(e) == e.ev = "onmessage"
IsOnClose(e) == e.ev = "onclose"
\* A delivered Response Envelope: it has an id; an Event Envelope has none
IsResponse(e) == e.ev = "onmessage" /\ "id" \in DOMAIN e.msg
IsEvent(e) == e.ev = "onmessage" /\ "id" \notin DOMAIN e.msg
IsEventOf(e, method) == IsEvent(e) /\ e.msg.method = method
IsDetachedEvent(e) == IsEventOf(e, "Target.detachedFromTarget")
IsSend(e) == e.ev \in {"send", "sendThrew"}
IsSendOf(e, method) == e.ev = "send" /\ e.command.method = method
IsFacadeSendCommand(e) == e.ev = "sendCommand"
IsSendSettled(e) == e.ev = "sendSettled"
IsRejected(e) == e.ev = "sendCommandSettled" /\ ~e.ok
IsResolved(e) == e.ev = "sendCommandSettled" /\ e.ok
IsClientClose(e) == e.ev = "close" /\ e.by = "client"
IsClientCloseSettled(e) == e.ev = "closeSettled" /\ e.by = "client"

\* The places of log[a] where the response to the command with this id is
\* delivered, and the places of timers where it waits for its delay
Delivered(a, id) == {i \in Where(a, IsResponse) : log[a][i].msg.id = id}
Pending(a, id) ==
    {i \in 1..Len(timers) :
        /\ timers[i].self = a
        /\ timers[i].run = "send"
        /\ timers[i].response.id = id}

\* The commands the facade is asked to run
Forwarded(command) == ~Includes(targetCommands, command.method)

\* The client has set both callbacks of transport a
Connected(a) == onmessage[a] /\ onclose[a]

\* The Target.detachedFromTarget event as the client reads it
DetachedEnvelope(a) ==
    [method |-> "Target.detachedFromTarget",
     params |-> [targetId |-> a, sessionId |-> a]]

\* The close callback has been called because of a detach notification: the
\* call is not the one a resolved close() makes just before it settles
HostClosed(a) ==
    \E i \in Where(a, IsOnClose) :
        i = Len(log[a]) \/ log[a][i + 1].ev # "closeSettled"

\* The client has sent nothing after a call of the close callback
QuietAfterClose(a) ==
    \A i \in Where(a, IsOnClose), j \in Where(a, IsSend) : j < i

----------------------------------------------------------------------------
(* C1: over any sequence of send, close(), Target.closeTarget and host     *)
(* detach notifications on one transport, onclose is called exactly once:  *)
(* never twice, and not zero times once a close() has settled.             *)
(* The code does not keep this: close() calls onclose whenever the         *)
(* facade's detach resolves and never when it rejects, and the detach      *)
(* listener calls it again.                                                *)

C1_OnCloseExactlyOnce ==
    \A a \in live :
        LET n == Cardinality(Where(a, IsOnClose))
        IN  /\ n <= 1
            /\ Where(a, IsClientCloseSettled) # {} => n = 1

----------------------------------------------------------------------------
(* C2: a host detach notification for the transport's tab produces exactly *)
(* one Target.detachedFromTarget event followed by exactly one call of     *)
(* onclose, and after that call onmessage is never called again. Stated    *)
(* for the timers that run when the client has sent nothing after the      *)
(* call, so that what they deliver was pending or in flight at the call.   *)
(* The code keeps the first half and not the second: a paced reply still   *)
(* pending is delivered after onclose.                                     *)

C2_DetachThenSilence ==
    [][\A a \in live :
          /\ (Connected(a) /\ HostDetach(target[a].tabId))
                => log'[a] = log[a] \o <<OnMessage(DetachedEnvelope(a)), OnClose>>
          /\ (HostClosed(a) /\ QuietAfterClose(a) /\ FireTimer)
                => Cardinality(Where(a, IsOnMessage))'
                       = Cardinality(Where(a, IsOnMessage))]_vars

\* The first half of C2 alone, which the code keeps
C2_DetachEmitsOnce ==
    [][\A a \in live :
          (Connected(a) /\ HostDetach(target[a].tabId))
              => log'[a] = log[a] \o <<OnMessage(DetachedEnvelope(a)), OnClose>>]_vars

----------------------------------------------------------------------------
(* C3: every Response Envelope delivered to onmessage has exactly one of   *)
(* result and error, whatever the facade's sendCommand resolves to (no     *)
(* value included) or rejects with.                                        *)
(* The code does not keep this: when sendCommand resolves to undefined the *)
(* envelope has neither.                                                   *)

C3_ResultXorError ==
    \A a \in live : \A i \in Where(a, IsResponse) :
        ("result" \in DOMAIN log[a][i].msg) # ("error" \in DOMAIN log[a][i].msg)

SentCloseTarget(a) == Where(a, LAMBDA e : IsSendOf(e, "Target.closeTarget")) # {}

----------------------------------------------------------------------------
(* C5: in a run where Target.closeTarget is sent and close() is called, at *)
(* most one Target.detachedFromTarget event is delivered. Stated for the   *)
(* runs with one close() by the client and no detach notification for the  *)
(* tab.                                                                    *)
(* The code does not keep this: each close() whose detach resolves emits   *)
(* the event.                                                              *)

C5_NoDoubleDetachEvent ==
    \A a \in live :
        (/\ SentCloseTarget(a)
         /\ Cardinality(Where(a, IsClientClose)) <= 1
         /\ ~HostClosed(a))
            => Cardinality(Where(a, IsDetachedEvent)) <= 1

----------------------------------------------------------------------------
(* C7: close() never rejects: a failure of the facade's detach is          *)
(* swallowed.                                                              *)
(* The code does not keep this: close() awaits detach outside any try.     *)

C7_CloseNeverRejects ==
    \A a \in live : \A i \in Where(a, IsClientCloseSettled) : log[a][i].ok

----------------------------------------------------------------------------
(* C9: once the transport is closed (onclose has been called), send never  *)
(* calls the facade's sendCommand.                                         *)
(* The code does not keep this: send does not look at whether the          *)
(* transport was closed.                                                   *)

C9_NoDispatchAfterClose ==
    \A a \in live :
        \A i \in Where(a, IsOnClose), j \in Where(a, IsFacadeSendCommand) : j < i

----------------------------------------------------------------------------
(* C4: the Response Envelope delivered for a forwarded command carries the *)
(* id and the method of the request, also when several forwarded commands  *)
(* are in flight and the facade settles them in another order: every       *)
(* delivered response with a forwarded command's id comes after that       *)
(* command was sent and settled, carries its method and params, and is the *)
(* only response with that id; and no response carries an id no command    *)
(* had.                                                                    *)

C4_ResponseEchoesRequest ==
    \A a \in live :
        /\ \A i \in Where(a, IsResponse) :
               \E j \in Where(a, LAMBDA e : e.ev = "send") :
                   j < i /\ log[a][j].command.id = log[a][i].msg.id
        /\ \A j \in Where(a, LAMBDA e : e.ev = "send" /\ Forwarded(e.command)) :
               LET c == log[a][j].command
               IN  /\ Cardinality(Delivered(a, c.id)) <= 1
                   /\ \A i \in Delivered(a, c.id) :
                          /\ log[a][i].msg.method = c.method
                          /\ log[a][i].msg.params = c.params
                          /\ \E k \in Where(a, LAMBDA e : e.ev = "sendCommandSettled") :
                                 j < k /\ k < i /\ log[a][k].command = c

\* Two forwarded commands were in flight at once, the facade settled the
\* second first, and both responses have been delivered
C4_Witness ==
    LET lg == log["A1"]
        Settled == Where("A1", LAMBDA e : e.ev = "sendCommandSettled")
    IN  \E k2 \in Settled : \E k1 \in {k \in Settled : k > k2} :
            /\ lg[k1].command.id < lg[k2].command.id
            /\ \A k \in {k1, k2} :
                   /\ Delivered("A1", lg[k].command.id) # {}
                   /\ \E j \in 1..(k2 - 1) :
                          lg[j] = SendCalled(lg[k].command)

Notified(tab) == HostDetach(tab) \/ \E e \in HostEvents : HostEvent(tab, e)

----------------------------------------------------------------------------
(* C6: a host event or detach notification whose source tab is not the     *)
(* transport's tab calls neither callback of that transport and leaves its *)
(* state as it was; of two transports on different tabs, only the one of   *)
(* the notification's tab acts on it.                                      *)

C6_OtherTabsIgnored ==
    [][\A tab \in Tabs : Notified(tab) =>
          \A a \in live :
              IF target[a].tabId = tab
              THEN Connected(a) => Len(log'[a]) > Len(log[a])
              ELSE /\ log'[a] = log[a]
                   /\ calls'[a] = calls[a]
                   /\ delay'[a] = delay[a]
                   /\ {i \in 1..Len(timers') : timers'[i].self = a}
                          = {i \in 1..Len(timers) : timers[i].self = a}]_vars

\* Both transports are connected, the first has relayed a host event and
\* has been told of a detach, and the second has been called with nothing
C6_Witness ==
    /\ live = Adapters
    /\ Connected("A1") /\ Connected("A2")
    /\ Where("A1", LAMBDA e : IsEventOf(e, "Page.loadEventFired")) # {}
    /\ Where("A1", IsOnClose) # {}
    /\ log["A2"] = <<>>

\* The envelope the client is to read for command c rejected with failure e
FailureEnvelope(c, e) ==
    [k \in DOMAIN c \cup {"error"} |->
        IF k # "error" THEN c[k]
        ELSE IF "message" \in DOMAIN e THEN [message |-> e.message]
        ELSE EmptyObject]

----------------------------------------------------------------------------
(* C8: when the facade's sendCommand rejects a forwarded command, send     *)
(* does not reject: it resolves, and the failure becomes one Response      *)
(* Envelope for that command, with error.message the failure's message     *)
(* (error without a message if the failure has none) and no result. The    *)
(* transport stays usable: C8_Witness is a later command answered.         *)

C8_RejectionBecomesErrorEnvelope ==
    \A a \in live :
        /\ \A i \in Where(a, IsSendSettled) : log[a][i].ok
        /\ \A k \in Where(a, IsRejected) :
               LET c == log[a][k].command
               IN  /\ log[a][k + 1] = SendSettled(c, TRUE)
                   /\ Cardinality(Delivered(a, c.id))
                          + Cardinality(Pending(a, c.id)) = 1
                   /\ \A i \in Delivered(a, c.id) :
                          /\ i > k
                          /\ log[a][i].msg = FailureEnvelope(c, log[a][k].value)
                          /\ "result" \notin DOMAIN log[a][i].msg

\* A command was rejected with a failure that has no message, its error
\* envelope was delivered, and a command sent after that has been answered
C8_Witness ==
    \E k \in Where("A1", IsRejected) :
        /\ log["A1"][k].value = EmptyObject
        /\ \E i \in Delivered("A1", log["A1"][k].command.id) :
               \E j \in Where("A1", LAMBDA e : e.ev = "send") :
                   i < j /\ Delivered("A1", log["A1"][j].command.id) # {}

IsDiscover(e) == IsSendOf(e, "Target.setDiscoverTargets")

\* The Target.targetCreated event as the client reads it
CreatedEnvelope(a) ==
    [method |-> "Target.targetCreated", params |-> [targetInfo |-> target[a]]]

\* The reply to command c with this result as the client reads it
ReplyEnvelope(c, result) ==
    [k \in DOMAIN c \cup {"result"} |-> IF k = "result" THEN result ELSE c[k]]

\* The event is emitted once, inside send, for each command; the reply waits
\* in one timer or has been delivered once, with the id echoed and result null
DiscoverSafe ==
    \A a \in live :
        /\ Cardinality(Where(a, LAMBDA e : IsEventOf(e, "Target.targetCreated")))
               = Cardinality(Where(a, IsDiscover))
        /\ \A j \in Where(a, IsDiscover) :
               LET c == log[a][j].command
               IN  /\ log[a][j + 1] = OnMessage(CreatedEnvelope(a))
                   /\ Cardinality(Delivered(a, c.id))
                          + Cardinality(Pending(a, c.id)) = 1
                   /\ \A i \in Delivered(a, c.id) :
                          i > j /\ log[a][i].msg = ReplyEnvelope(c, Null)

\* The reply is scheduled with the delay the transport has at the send
DiscoverPaced ==
    \A a \in live : \A message \in MessagesOf(a, NextId(a)) :
        (message # Malformed /\ message.method = "Target.setDiscoverTargets"
            /\ Send(a, message))
        => /\ Len(timers') = Len(timers) + 1
           /\ timers'[Len(timers')].rem = delay[a]
           /\ Pending(a, message.id)' = {Len(timers')}

\* The Target.setDiscoverTargets command with this id has been sent
DiscoverSent(a, id) ==
    \E j \in Where(a, IsDiscover) : log[a][j].command.id = id

----------------------------------------------------------------------------
(* C10: a Target.setDiscoverTargets command yields, once the pacing delay  *)
(* has elapsed, its own reply (the id echoed, result null) and exactly one *)
(* Target.targetCreated event whose targetInfo is the transport's target:  *)
(* the event is emitted once inside send, as many targetCreated events     *)
(* have been delivered as such commands were sent, the reply waits in one  *)
(* timer set with the transport's delay or has been delivered once, and,   *)
(* timers firing, it is delivered in the end.                              *)

C10_DiscoverYieldsReplyAndEvent ==
    /\ []DiscoverSafe
    /\ [][DiscoverPaced]_vars
    /\ \A a \in Adapters : \A id \in 1..MaxSends :
           DiscoverSent(a, id) ~> (Delivered(a, id) # {})

\* The command was sent after the delay was changed, its event was
\* delivered at once and its reply has been delivered after it
C10_Witness ==
    /\ delay["A1"] = ShortDelay
    /\ \E j \in Where("A1", IsDiscover) :
           /\ log["A1"][j + 1] = OnMessage(CreatedEnvelope("A1"))
           /\ \E i \in Delivered("A1", log["A1"][j].command.id) :
                  log["A1"][i].msg.result = Null

IsAttach(e) == IsSendOf(e, "Target.attachToTarget")

\* The Target.attachedToTarget event as the client reads it
AttachedEnvelope(a) ==
    [method |-> "Target.attachedToTarget",
     params |-> [targetInfo |-> target[a], sessionId |-> sessionId[a],
                 waitingForDebugger |-> FALSE]]

\* The event is emitted once, inside send, for each command; the reply waits
\* in one timer or has been delivered once, with the transport's session
AttachSafe ==
    \A a \in live :
        /\ Cardinality(Where(a, LAMBDA e : IsEventOf(e, "Target.attachedToTarget")))
               = Cardinality(Where(a, IsAttach))
        /\ \A j \in Where(a, IsAttach) :
               LET c == log[a][j].command
               IN  /\ log[a][j + 1] = OnMessage(AttachedEnvelope(a))
                   /\ Cardinality(Delivered(a, c.id))
                          + Cardinality(Pending(a, c.id)) = 1
                   /\ \A i \in Pending(a, c.id) :
                          timers[i].response.result = [sessionId |-> sessionId[a]]
                   /\ \A i \in Delivered(a, c.id) :
                          /\ i > j
                          /\ log[a][i].msg
                                 = ReplyEnvelope(c, [sessionId |-> sessionId[a]])

\* The Target.attachToTarget command with this id has been sent
AttachSent(a, id) ==
    \E j \in Where(a, IsAttach) : log[a][j].command.id = id

----------------------------------------------------------------------------
(* C11: a Target.attachToTarget command yields exactly one reply whose     *)
(* result.sessionId is the transport's Session Identifier and exactly one  *)
(* Target.attachedToTarget event with waitingForDebugger false and the     *)
(* same sessionId in its params, whatever targetId the command's params    *)
(* name: the event is emitted once inside send, the reply waits in one     *)
(* timer or has been delivered once, and, timers firing, it is delivered   *)
(* in the end.                                                             *)

C11_AttachYieldsReplyAndEvent ==
    /\ []AttachSafe
    /\ \A a \in Adapters : \A id \in 1..MaxSends :
           AttachSent(a, id) ~> (Delivered(a, id) # {})

\* The command named another target than the transport's; its event was
\* delivered at once and its reply has been delivered with the transport's
\* session
C11_Witness ==
    \E j \in Where("A1", IsAttach) :
        /\ log["A1"][j].command.params.targetId = "A2"
        /\ log["A1"][j + 1] = OnMessage(AttachedEnvelope("A1"))
        /\ \E i \in Delivered("A1", log["A1"][j].command.id) :
               log["A1"][i].msg.result.sessionId = sessionId["A1"]

\* What the log lg of a call of create says
CreateReturned(lg) == lg[Len(lg)].ev = "createSettled" /\ lg[Len(lg)].ok
AttachFailed(lg) == Len(lg) >= 3 /\ ~lg[3].ok
TargetsListed(lg) == Len(lg) >= 5 /\ lg[5].ok

\* The places of the list where an attached entry of this tab stands
MatchingEntries(targets, tabId) ==
    {k \in 1..Len(targets) :
        /\ targets[k].attached
        /\ "tabId" \in DOMAIN targets[k]
        /\ targets[k].tabId = tabId}

\* The transports that calls of create have returned
Created ==
    {creates[i].log[Len(creates[i].log)].value.transport :
        i \in {j \in 1..Len(creates) : CreateReturned(creates[j].log)}}

----------------------------------------------------------------------------
(* C12: create attaches once, with {tabId} and version 1.3. It returns a   *)
(* transport only after attach resolved and getTargets listed an attached  *)
(* entry of the requested tab, and the transport's Session Identifier is   *)
(* the id of the first such entry. If attach rejects, create rejects with  *)
(* the same error, having called neither getTargets nor addListener. If    *)
(* the list has no such entry, create rejects with 'target not found' and  *)
(* no listener was added. The transports that exist are those returned.    *)

C12_CreateOutcome ==
    /\ live = Created
    /\ \A i \in 1..Len(creates) :
           LET lg == creates[i].log
               tab == creates[i].tabId
               attach == FacadeAttach([tabId |-> tab], "1.3")
           IN  /\ {k \in 1..Len(lg) : lg[k].ev = "attach"} = {2}
               /\ lg[2] = attach
               /\ CreateReturned(lg) =>
                      LET targets == lg[5].value.targets
                          a == lg[Len(lg)].value.transport
                          first == Min(MatchingEntries(targets, tab))
                      IN  /\ lg[3] = AttachSettled(TRUE, Undefined)
                          /\ TargetsListed(lg)
                          /\ MatchingEntries(targets, tab) # {}
                          /\ sessionId[a] = targets[first].id
                          /\ target[a] = lg[Len(lg)].value.target
                          /\ target[a].tabId = tab /\ target[a].attached
                          /\ SubSeq(lg, 6, 7) = <<AddListener("onEvent", a),
                                                  AddListener("onDetach", a)>>
               /\ AttachFailed(lg) =>
                      lg = <<CreateCalled(tab), attach, lg[3],
                             CreateSettled(FALSE, lg[3].value)>>
               /\ (TargetsListed(lg)
                     /\ MatchingEntries(lg[5].value.targets, tab) = {}) =>
                      /\ Len(lg) = 6
                      /\ lg[6] = CreateSettled(FALSE, TargetNotFound)
                      /\ \A k \in 1..Len(lg) : lg[k].ev # "addListener"

\* One call of create has returned a transport whose entry was not the
\* first of the list, with an entry of the tab that is not attached before
\* it; another has failed because attach was rejected
C12_Witness ==
    /\ \E i \in 1..Len(creates) :
           /\ CreateReturned(creates[i].log)
           /\ LET targets == creates[i].log[5].value.targets
              IN  /\ MatchingEntries(targets, creates[i].tabId) = {2}
                  /\ "tabId" \in DOMAIN targets[1]
                  /\ targets[1].tabId = creates[i].tabId
    /\ \E i \in 1..Len(creates) : AttachFailed(creates[i].log)
    /\ Cardinality(live) = 1

\* A call of create has failed because no entry matched, and the facade has
\* notified after that
C12_NotFoundWitness ==
    /\ \E i \in 1..Len(creates) :
           /\ TargetsListed(creates[i].log)
           /\ creates[i].log[Len(creates[i].log)]
                  = CreateSettled(FALSE, TargetNotFound)
    /\ live = {}
    /\ left < CreateInputs

\* How many Response Envelopes transport a has delivered
Responses(a) == Cardinality(Where(a, IsResponse))

\* The commands transport a was sent and has answered
Answered(a) ==
    {log[a][j].command : j \in {k \in Where(a, LAMBDA e : e.ev = "send") :
                                   Delivered(a, log[a][k].command.id) # {}}}

----------------------------------------------------------------------------
(* C13: every Response Envelope, of an emulated or a forwarded command,    *)
(* goes through _delaySend: a step delivers a response only when it is the *)
(* run of a due timer that held it, so never the send call or the          *)
(* settlement that produced it; and every timer is set with the delay the  *)
(* transport has at that moment, which only the passing of time brings to  *)
(* zero.                                                                   *)

C13_ResponsesArePaced ==
    [][\A a \in live :
          /\ Responses(a)' # Responses(a) =>
                 /\ FireTimer
                 /\ LET t == timers[Min(Due)]
                    IN  /\ t.self = a /\ t.run = "send"
                        /\ log'[a] = Append(log[a], OnMessage(Stringify(t.response)))
          /\ Len(timers') > Len(timers) =>
                 /\ SubSeq(timers', 1, Len(timers)) = timers
                 /\ \A i \in (Len(timers) + 1)..Len(timers') :
                        timers'[i].self = a =>
                            timers'[i].rem = delay[a] /\ delay[a] > 0
          /\ \A i \in 1..Len(timers) :
                 (Len(timers') >= Len(timers) /\ timers'[i].rem # timers[i].rem)
                     => Tick]_vars

\* The response to an emulated command and the response to a forwarded one
\* have both been delivered
C13_Witness ==
    /\ \E c \in Answered("A1") : Forwarded(c)
    /\ \E c \in Answered("A1") : ~Forwarded(c)

\* The timers of transport a that hold a response, other than the one at i
OtherResponses(a, i) ==
    {j \in 1..Len(timers) :
        j # i /\ timers[j].self = a /\ timers[j].run = "send"}

\* This step runs the timer at place i of timers, which holds a response
Delivers(i) ==
    /\ timers[i].run = "send"
    /\ timers' = RemoveAt(timers, i)
    /\ \E a \in {timers[i].self} : Responses(a)' = Responses(a) + 1

\* The responses to emulated commands wait in the order the commands were
\* sent, whose ids grow
EmulatedInSendOrder ==
    \A i, j \in 1..Len(timers) :
        (/\ i < j
         /\ timers[i].run = "send" /\ timers[j].run = "send"
         /\ timers[i].self = timers[j].self
         /\ ~Forwarded(timers[i].response) /\ ~Forwarded(timers[j].response))
            => timers[i].response.id < timers[j].response.id

\* A response is delivered before one scheduled earlier only if the two
\* were scheduled with different delays; and before the response to an
\* emulated command sent earlier only if, moreover, it is itself emulated
FifoStep ==
    \A i \in 1..Len(timers) : Delivers(i) =>
        \A j \in OtherResponses(timers[i].self, i) :
            /\ timers[j].ms = timers[i].ms => i < j
            /\ (/\ timers[j].response.id < timers[i].response.id
                /\ ~Forwarded(timers[j].response)
                /\ ~Forwarded(timers[i].response))
                   => timers[j].ms # timers[i].ms

----------------------------------------------------------------------------
(* C14: responses scheduled one after the other with the same delay are    *)
(* delivered in the order they were scheduled: when a response is          *)
(* delivered, no response of the transport scheduled before it with the    *)
(* same delay still waits. The replies to emulated commands are scheduled  *)
(* inside send, so in send order, and one overtakes another only when the  *)
(* delay was changed between them; any other overtaking has a forwarded    *)
(* command in it, scheduled when the facade settled it.                    *)

C14_SameDelayFifo ==
    /\ []EmulatedInSendOrder
    /\ [][FifoStep]_vars

\* Two emulated commands were sent, the delay was never changed, and their
\* replies have been delivered in send order
C14_Witness ==
    /\ left = MaxInputs - 2
    /\ \E c1, c2 \in Answered("A1") :
           /\ c1.id < c2.id /\ ~Forwarded(c1) /\ ~Forwarded(c2)
           /\ \E i1 \in Delivered("A1", c1.id), i2 \in Delivered("A1", c2.id) :
                  i1 < i2

\* The delay was shortened between two emulated commands and the reply to
\* the second has been delivered first
C14_ReorderWitness ==
    \E c1, c2 \in Answered("A1") :
        /\ c1.id < c2.id /\ ~Forwarded(c1) /\ ~Forwarded(c2)
        /\ \E i1 \in Delivered("A1", c1.id), i2 \in Delivered("A1", c2.id) :
               i2 < i1

\* The places of log[a] where a close() started by the timer of
\* Target.closeTarget has emitted Target.detachedFromTarget: the event, the
\* close callback and the settlement of that close() follow one another
ScheduledTeardowns(a) ==
    {k \in Where(a, IsDetachedEvent) :
        /\ k + 2 <= Len(log[a])
        /\ log[a][k + 1] = OnClose
        /\ log[a][k + 2] = CloseSettled("timer", TRUE)}

\* The places of log[a] where a reply to Target.closeTarget is delivered
CloseTargetReplies(a) ==
    {i \in Where(a, IsResponse) : log[a][i].msg.method = "Target.closeTarget"}

----------------------------------------------------------------------------
(* C15: the reply {success: true} to Target.closeTarget is delivered       *)
(* before the Target.detachedFromTarget event and the close callback of    *)
(* the close() the command scheduled: before each such teardown, at least  *)
(* as many replies to Target.closeTarget have been delivered as scheduled  *)
(* teardowns have happened up to it.                                       *)
(* The code does not keep this: the close timer is set before the reply    *)
(* timer, so close() calls detach first, and when detach resolves before   *)
(* the reply timer runs the teardown comes first.                          *)

C15_ReplyBeforeTeardown ==
    \A a \in live : \A k \in ScheduledTeardowns(a) :
        Cardinality({i \in CloseTargetReplies(a) : i < k})
            >= Cardinality({h \in ScheduledTeardowns(a) : h <= k})

\* The events the transport makes itself
Synthesized ==
    {"Target.targetCreated", "Target.attachedToTarget",
     "Target.detachedFromTarget"}

\* The envelope m carries this session at its top level
Stamped(m, session) == "sessionId" \in DOMAIN m /\ m.sessionId = session

\* The commands transport a was sent with this id
SentWithId(a, id) ==
    {log[a][j].command :
        j \in {k \in Where(a, LAMBDA e : e.ev = "send") :
                  log[a][k].command.id = id}}

----------------------------------------------------------------------------
(* C16, as stated: every message delivered to onmessage, response or       *)
(* event, relayed or synthesized, has a sessionId equal to the transport's *)
(* Session Identifier.                                                     *)
(* The code stamps only the events it relays.                              *)

C16_EveryMessageStamped ==
    \A a \in live : \A i \in Where(a, IsOnMessage) :
        Stamped(log[a][i].msg, sessionId[a])

(* C16, amended: the Session Identifier is the target's id. Every relayed  *)
(* host event has it as its sessionId. The synthesized events have no      *)
(* sessionId of their own: Target.attachedToTarget and                     *)
(* Target.detachedFromTarget name the session inside their params,         *)
(* Target.targetCreated names the target. A response has the sessionId of  *)
(* its command, and none when the command had none.                        *)

C16_SessionStamps ==
    \A a \in live :
        /\ sessionId[a] = target[a].id
        /\ \A i \in Where(a, IsEvent) :
               LET m == log[a][i].msg
               IN  IF m.method \in Synthesized
                   THEN /\ "sessionId" \notin DOMAIN m
                        /\ IF m.method = "Target.targetCreated"
                           THEN m.params.targetInfo.id = sessionId[a]
                           ELSE m.params.sessionId = sessionId[a]
                   ELSE Stamped(m, sessionId[a])
        /\ \A i \in Where(a, IsResponse) :
               LET m == log[a][i].msg
               IN  \A c \in SentWithId(a, m.id) :
                       IF "sessionId" \in DOMAIN c
                       THEN Stamped(m, c.sessionId)
                       ELSE "sessionId" \notin DOMAIN m

\* A relayed event with the session, a synthesized event without one and a
\* response without one have been delivered
C16_Witness ==
    /\ \E i \in Where("A1", IsEvent) :
           /\ log["A1"][i].msg.method \notin Synthesized
           /\ Stamped(log["A1"][i].msg, sessionId["A1"])
    /\ \E i \in Where("A1", IsEvent) : log["A1"][i].msg.method \in Synthesized
    /\ \E i \in Where("A1", IsResponse) : "sessionId" \notin DOMAIN log["A1"][i].msg

\* A response with the session of its command has been delivered
C16_StampedResponseWitness ==
    \E i \in Where("A1", IsResponse) : Stamped(log["A1"][i].msg, sessionId["A1"])

\* The Event Envelope of the notification e as the client of a reads it
RelayedEnvelope(a, e) ==
    [method |-> e.method, params |-> e.params, sessionId |-> sessionId[a]]

\* The places of log[a] where a relayed event is delivered
Relayed(a) ==
    {i \in Where(a, IsEvent) : log[a][i].msg.method \notin Synthesized}

\* The notification is delivered in the step it arrives in, after all that
\* was delivered before, and no timer is set for it
RelayStep ==
    \A tab \in Tabs, e \in HostEvents : HostEvent(tab, e) =>
        \A a \in live : (target[a].tabId = tab /\ onmessage[a]) =>
            /\ log'[a] = Append(log[a], OnMessage(RelayedEnvelope(a, e)))
            /\ timers' = timers
            /\ calls' = calls

\* What has been delivered stays where it is: later steps only add to the log
LogGrows ==
    \A a \in live :
        /\ Len(log'[a]) >= Len(log[a])
        /\ SubSeq(log'[a], 1, Len(log[a])) = log[a]

----------------------------------------------------------------------------
(* C17: a host event notification for the transport's tab is delivered to  *)
(* onmessage in the step of the notification itself, with no timer set, as *)
(* the envelope {method, params, sessionId} of the notification's method   *)
(* and params. It is appended to what was delivered before and nothing     *)
(* delivered is moved later, so relayed events are read in the order the   *)
(* facade emitted them; C17_Witness is a relayed event read before a       *)
(* response that was scheduled before the notification.                    *)

C17_EventsRelayedAtOnce == [][RelayStep /\ LogGrows]_vars

\* Two different events were relayed one after the other, and the second
\* was read before the response to a command whose response had been
\* scheduled before it
C17_Witness ==
    \E i1, i2 \in Relayed("A1") :
        /\ i1 < i2
        /\ log["A1"][i1].msg.method # log["A1"][i2].msg.method
        /\ \E s \in Where("A1", IsSendSettled) :
               /\ s < i2
               /\ \E r \in Delivered("A1", log["A1"][s].command.id) : i2 < r

IsClose(e) == e.ev = "close"
IsCloseResolved(e) == e.ev = "closeSettled" /\ e.ok
IsFacadeDetach(e) == e.ev = "detach"

----------------------------------------------------------------------------
(* C18: close() calls the facade's detach for the transport's debuggee     *)
(* before anything else, once, and the teardown is what follows the        *)
(* resolution of that call: every close() that has completed (resolved;    *)
(* C7 is about the one that rejects) ends with detach settled, then the    *)
(* Target.detachedFromTarget event, then the close callback, then its own  *)
(* settlement, and it was called, with its detach, before all of them.     *)

C18_CloseDetachesThenTearsDown ==
    \A a \in live :
        /\ \A c \in Where(a, IsClose) : log[a][c + 1] = FacadeDetach(debugee[a])
        /\ Cardinality(Where(a, IsFacadeDetach)) = Cardinality(Where(a, IsClose))
        /\ \A k \in Where(a, IsCloseResolved) :
               /\ k > 5
               /\ SubSeq(log[a], k - 3, k - 1)
                      = <<DetachSettled(TRUE), OnMessage(DetachedEnvelope(a)),
                          OnClose>>
               /\ \E c \in Where(a, IsClose) :
                      c + 1 < k - 3 /\ log[a][c].by = log[a][k].by

\* A close() of the client has resolved while a response was still waiting
\* for its delay
C18_Witness ==
    /\ \E k \in Where("A1", IsClientCloseSettled) : log["A1"][k].ok
    /\ timers # <<>>

IsSendCalled(e) == e.ev = "send"

----------------------------------------------------------------------------
(* C19: send classifies a command by its method alone. A command with one  *)
(* of the five emulated methods is answered by the transport and the       *)
(* facade's sendCommand is not called for it; any other command is given   *)
(* to sendCommand once, inside send, with the transport's debuggee and the *)
(* command's method and params, whether or not it names a session; and a   *)
(* rejection is not followed by another call.                              *)

C19_ForwardedExactlyOnce ==
    \A a \in live :
        /\ \A j \in Where(a, IsSendCalled) :
               LET c == log[a][j].command
               IN  IF c.method \in {targetCommands[k] : k \in 1..Len(targetCommands)}
                   THEN ~IsFacadeSendCommand(log[a][j + 1])
                   ELSE log[a][j + 1]
                            = FacadeSendCommand(debugee[a], c.method, c.params)
        /\ \A k \in Where(a, IsFacadeSendCommand) :
               k > 1 /\ IsSendCalled(log[a][k - 1])
        /\ Cardinality(Where(a, IsFacadeSendCommand))
               = Cardinality(Where(a, LAMBDA e : IsSendCalled(e)
                                                    /\ Forwarded(e.command)))

\* An emulated command and a forwarded command were sent, the facade
\* rejected the forwarded one and the error was delivered
C19_Witness ==
    /\ \E c \in Answered("A1") : ~Forwarded(c)
    /\ \E k \in Where("A1", IsRejected) :
           Delivered("A1", log["A1"][k].command.id) # {}
    /\ Cardinality(Where("A1", IsFacadeSendCommand)) = 1

\* The command with this id has been passed to send of transport a
Sent(a, id) == SentWithId(a, id) # {}

\* The sendCommand calls of transport a in flight for the command with this id
InFlight(a, id) ==
    {i \in 1..Len(calls[a]) :
        calls[a][i].op = "sendCommand" /\ calls[a][i].command.id = id}

\* The response to each command sent is in one place: with the facade,
\* waiting for its delay, or delivered
OneResponseEach ==
    \A a \in live : \A j \in Where(a, IsSendCalled) :
        LET id == log[a][j].command.id
        IN  /\ Cardinality(InFlight(a, id)) + Cardinality(Pending(a, id))
                   + Cardinality(Delivered(a, id)) = 1
            /\ \A i \in Delivered(a, id) : i > j

----------------------------------------------------------------------------
(* C20: every command passed to send gets exactly one Response Envelope:   *)
(* at every moment its response is in flight at the facade, waiting in one *)
(* timer or delivered once, never two of these and never none; and, the    *)
(* facade settling every call and the timers firing, it is delivered in    *)
(* the end, whatever else is sent, notified or done to the delay.          *)

C20_ExactlyOneResponse ==
    /\ []OneResponseEach
    /\ \A a \in Adapters : \A id \in 1..MaxSends :
           Sent(a, id) ~> (Cardinality(Delivered(a, id)) = 1)

\* A forwarded command was sent first and an emulated one after it, and the
\* facade settled the first so late that its response was delivered last
C20_Witness ==
    \E c1, c2 \in Answered("A1") :
        /\ c1.id < c2.id /\ Forwarded(c1) /\ ~Forwarded(c2)
        /\ \E i1 \in Delivered("A1", c1.id), i2 \in Delivered("A1", c2.id) :
               i2 < i1

====
